---- MODULE Spec2Model ----
(***************************************************************************)
(* Model of core_utils.filesys: the version lookups                        *)
(* get_latest_version_file_from_dir and get_next_version_from_dir, and the *)
(* natural sort sort_path_list.                                            *)
(*                                                                         *)
(* A Python str is a sequence of one-character strings.  The characters    *)
(* are ASCII but for one digit of another script, "U+0663", for which      *)
(* str.isdigit() holds although it is not in the class [0-9].              *)
(* The state is the directory on disk (dirExists, contents in enumeration  *)
(* order), the list handed to sort_path_list (paths), and the last call    *)
(* with its outcome (call, result).                                        *)
(*                                                                         *)
(* core_utils.func.once: the closure of one decorated function (has_run,   *)
(* once_result, lock), the threads calling its wrapper (pc), the outcome   *)
(* of each finished call (ret), the executions of the wrapped function     *)
(* (ran) and whether that function raises (funcRaises).                    *)
(*                                                                         *)
(* core_utils.func.freeze_gc (core_utils.collector.freeze_gc is the same   *)
(* code): the collector's flag (gc_enabled), the wrapper calls under way   *)
(* in each thread, innermost last (gcStack), and the finished calls with   *)
(* the flag before and after them (gcLog).                                 *)
(*                                                                         *)
(* core_utils.structured: the file at the path the exports write to        *)
(* (stored), the export calls made with the file before and after each     *)
(* (exported), and the outcome of import_data_from_xml (imported).         *)
(*                                                                         *)
(* core_utils.env.load_env_file: the process environment (environ, a       *)
(* function from the names that are set to their values), the .env file    *)
(* (envFile) and the call made with the environment before it (loaded).    *)
(*                                                                         *)
(* core_utils.size.ScaleHandler: the object (scale) and its last           *)
(* convert_to_unit call (converted).  core_utils.text.ProgressBar: the     *)
(* object (bar) and the outcomes of the calls of next on it (nexts).       *)
(* core_utils.size.convert_size and core.regex.validation_no_special_chars *)
(* are calls with their outcome (call, result).                            *)
(***************************************************************************)
EXTENDS Integers, Sequences, FiniteSets, TLC

VARIABLES dirExists, contents, paths, call, result,
          has_run, once_result, lock, pc, ret, ran, funcRaises,
          gc_enabled, gcStack, gcLog,
          stored, exported, imported,
          environ, envFile, loaded,
          scale, converted, bar, nexts

fsVars == <<dirExists, contents, paths, call, result>>
onceVars == <<has_run, once_result, lock, pc, ret, ran, funcRaises>>
gcVars == <<gc_enabled, gcStack, gcLog>>
dataVars == <<stored, exported, imported>>
envVars == <<environ, envFile, loaded>>
objVars == <<scale, converted, bar, nexts>>
vars == <<fsVars, onceVars, gcVars, dataVars, envVars, objVars>>

(***************************************************************************)
(* Bounds of the explored inputs.                                          *)
(***************************************************************************)
MaxEntries == 2        \* entries of a directory, Spec
MaxStemLen == 1        \* characters of a stem, Spec
MaxPadding == 2        \* largest padding argument
MaxVerEntries == 1     \* entries of a directory, SpecVer
MaxVerStemLen == 3     \* characters of a stem, SpecVer
MaxPaths == 2          \* paths of a list, SpecSort
MaxPathLen == 2        \* characters of a path, SpecSort
MaxKeyLen == 4         \* characters of a text handed to alphanum_key, SpecKey
MaxThreads == 2        \* threads calling the wrapper of once, SpecOnce
MaxCalls == 2          \* calls a thread makes one after the other, SpecOnce
MaxGcCalls == 3        \* calls of freeze_gc wrappers in a run, SpecGc
MaxGcDepth == 2        \* wrapped calls nested in one another, SpecGc
MaxExports == 2        \* export calls on the path, SpecExport
MaxXmlItems == 2       \* keys of a dict, items of a list, SpecXml
MaxXmlExports == 1     \* export calls before the import, SpecXml
MaxEnvLines == 2       \* lines of the .env file, SpecEnv
MaxTieEntries == 2     \* entries of a directory, SpecTie
MaxTieStemLen == 2     \* characters of a stem, SpecTie
MaxConversions == 2    \* convert_to_unit calls on the object, SpecScale
MaxSizeBits == 21      \* a byte count is near 2^a + 2^b, a and b up to this, SpecPure
MaxSizeOff == 2        \* distance of a byte count from 2^a + 2^b, SpecPure
MaxStrLen == 3         \* characters of a validated string, SpecPure
MaxBarLen == 3         \* elements of the data of a ProgressBar, SpecBar
MaxMoreNexts == 2      \* calls of next after the data is used up, SpecBar

None == "None"

(***************************************************************************)
(* Python str and int primitives used by filesys.py.                       *)
(***************************************************************************)
Digits == {"0", "1", "2", "3", "4", "5", "6", "7", "8", "9"}

\* char.isdigit(): true of the ASCII digits and of the digits of other
\* scripts; "U+0663" stands for the one character ARABIC-INDIC DIGIT THREE
IsDigitChar(c) == c \in Digits \cup {"U+0663"}

DigitVal(c) ==
    CASE c = "0" -> 0 [] c = "1" -> 1 [] c = "2" -> 2 [] c = "3" -> 3
      [] c = "4" -> 4 [] c = "5" -> 5 [] c = "6" -> 6 [] c = "7" -> 7
      [] c = "8" -> 8 [] c = "9" -> 9 [] c = "U+0663" -> 3

DigitChar(n) ==
    CASE n = 0 -> "0" [] n = 1 -> "1" [] n = 2 -> "2" [] n = 3 -> "3"
      [] n = 4 -> "4" [] n = 5 -> "5" [] n = 6 -> "6" [] n = 7 -> "7"
      [] n = 8 -> "8" [] n = 9 -> "9"

\* s.isdigit(): every character is a digit and there is at least one
IsDigitStr(s) == Len(s) > 0 /\ \A i \in 1..Len(s) : IsDigitChar(s[i])

\* int(s) for a string of decimal digits
RECURSIVE ParseInt(_)
ParseInt(s) ==
    IF Len(s) = 0 THEN 0
    ELSE ParseInt(SubSeq(s, 1, Len(s) - 1)) * 10 + DigitVal(s[Len(s)])

\* str(n) for n >= 0
RECURSIVE IntToStr(_)
IntToStr(n) ==
    IF n < 10 THEN <<DigitChar(n)>>
    ELSE IntToStr(n \div 10) \o <<DigitChar(n % 10)>>

\* zfill that keeps only the last `width` characters
ZFill_Truncating(s, width) ==
    IF Len(s) > width THEN SubSeq(s, Len(s) - width + 1, Len(s))
    ELSE [i \in 1..width |-> IF i <= width - Len(s) THEN "0" ELSE s[i - (width - Len(s))]]

\* s.zfill(width) for an unsigned s: zeros on the left, never truncates
RECURSIVE ZFill(_, _)
ZFill(s, width) ==
    IF Len(s) >= width THEN s ELSE ZFill(<<"0">> \o s, width)

\* s.startswith(p)
StartsWith(s, p) == Len(p) <= Len(s) /\ SubSeq(s, 1, Len(p)) = p

\* sub in s
Contains(s, sub) ==
    \E i \in 0..(Len(s) - Len(sub)) : SubSeq(s, i + 1, i + Len(sub)) = sub

\* s[-n:] for n >= 0 (s[-0:] is the whole of s)
LastChars(s, n) ==
    IF n = 0 \/ n >= Len(s) THEN s ELSE SubSeq(s, Len(s) - n + 1, Len(s))

(***************************************************************************)
(* pathlib: name, suffix and stem of a directory entry, and its as_posix() *)
(* text.  An entry is [name, isFile]; DirPosix is the directory's path.    *)
(***************************************************************************)
DirPosix == <<"d">>

\* name.rfind("."): 0-based index of the last dot, -1 without one
RFindDot(name) ==
    IF \E i \in 1..Len(name) : name[i] = "."
    THEN (CHOOSE i \in 1..Len(name) :
              name[i] = "." /\ \A j \in (i + 1)..Len(name) : name[j] # ".") - 1
    ELSE -1

HasSuffix(name) == 0 < RFindDot(name) /\ RFindDot(name) < Len(name) - 1

\* Path.suffix
Suffix(name) ==
    IF HasSuffix(name) THEN SubSeq(name, RFindDot(name) + 1, Len(name)) ELSE <<>>

\* Path.stem
Stem(name) ==
    IF HasSuffix(name) THEN SubSeq(name, 1, RFindDot(name)) ELSE name

\* Path.as_posix() of an entry of the directory
AsPosix(name) == DirPosix \o <<"/">> \o name

\* the extension taken as given
NormalizeExt_AsGiven(extension) == extension

\* ext = extension if extension.startswith(".") else f".{extension}"
NormalizeExt(extension) ==
    IF StartsWith(extension, <<".">>) THEN extension ELSE <<".">> \o extension

Return(v) == [kind |-> "return", value |-> v]
Raise(e) == [kind |-> "raise", value |-> e]

NoCall == [fn |-> "none"]
NoResult == [kind |-> "none"]

(***************************************************************************)
(* The parts of the state a specification does not use stay at rest.       *)
(***************************************************************************)
Threads == 1..MaxThreads

\* lock = threading.Lock(); has_run = False; result = None, no call under way
OnceIdle ==
    /\ has_run = FALSE
    /\ once_result = None
    /\ lock = 0
    /\ pc = [t \in Threads |-> "idle"]
    /\ ret = [t \in Threads |-> <<>>]
    /\ ran = <<>>
    /\ funcRaises = FALSE

\* the collector of a fresh interpreter is enabled; no wrapper call under way
GcIdle ==
    /\ gc_enabled = TRUE
    /\ gcStack = [t \in Threads |-> <<>>]
    /\ gcLog = <<>>

\* no file at the path
Absent == [format |-> "absent"]

DataIdle ==
    /\ stored = Absent
    /\ exported = <<>>
    /\ imported = NoResult

\* nothing set, no .env file, no call made
EnvIdle ==
    /\ environ = <<>>
    /\ envFile = [exists |-> FALSE, lines |-> <<>>]
    /\ loaded = NoCall

\* no ScaleHandler converted, no ProgressBar iterated
ObjIdle ==
    /\ scale = [unit |-> "cm", length |-> <<"1.0">>]
    /\ converted = NoCall
    /\ bar = [data |-> <<>>, index |-> 0]
    /\ nexts = <<>>

exceptFs == <<onceVars, gcVars, dataVars, envVars, objVars>>
exceptOnce == <<fsVars, gcVars, dataVars, envVars, objVars>>
exceptGc == <<fsVars, onceVars, dataVars, envVars, objVars>>
exceptData == <<fsVars, onceVars, gcVars, envVars, objVars>>
exceptEnv == <<fsVars, onceVars, gcVars, dataVars, objVars>>
ExceptFsIdle == OnceIdle /\ GcIdle /\ DataIdle /\ EnvIdle /\ ObjIdle

(***************************************************************************)
(* get_latest_version_file_from_dir                                        *)
(***************************************************************************)
\* the filter without its substring test
LatestPasses_ExtOnly(f, ext, substring) == Suffix(f.name) = ext

\* the filter of the candidates comprehension
LatestPasses(f, ext, substring) ==
    /\ Suffix(f.name) = ext
    /\ (substring = None \/ Contains(AsPosix(f.name), substring))

LatestCandidates(dir, ext, substring) ==
    SelectSeq(dir, LAMBDA f : LatestPasses(f, ext, substring))

\* the loop without its break: every digit of the stem is collected
RECURSIVE VersionStr_NoBreak(_)
VersionStr_NoBreak(stem) ==
    IF Len(stem) = 0 THEN <<>>
    ELSE VersionStr_NoBreak(SubSeq(stem, 1, Len(stem) - 1))
         \o (IF IsDigitChar(stem[Len(stem)]) THEN <<stem[Len(stem)]>> ELSE <<>>)

\* the loop over reversed(file.stem): the digits read until the first non-digit
RECURSIVE VersionStr(_)
VersionStr(stem) ==
    IF Len(stem) = 0 \/ ~IsDigitChar(stem[Len(stem)]) THEN <<>>
    ELSE VersionStr(SubSeq(stem, 1, Len(stem) - 1)) \o <<stem[Len(stem)]>>

\* versioned_files without the "if version_str" test
RECURSIVE VersionedOf_NoDigitTest(_)
VersionedOf_NoDigitTest(cands) ==
    IF Len(cands) = 0 THEN <<>>
    ELSE <<[file |-> Head(cands),
            version |-> ParseInt(VersionStr(Stem(Head(cands).name)))]>>
         \o VersionedOf_NoDigitTest(Tail(cands))

\* versioned_files: (file, int(version_str)) for every candidate with digits
RECURSIVE VersionedOf(_)
VersionedOf(cands) ==
    IF Len(cands) = 0 THEN <<>>
    ELSE LET file == Head(cands)
             version_str == VersionStr(Stem(file.name))
         IN  (IF version_str # <<>>
              THEN <<[file |-> file, version |-> ParseInt(version_str)]>>
              ELSE <<>>) \o VersionedOf(Tail(cands))

\* a max that keeps the last item with the largest key
MaxByVersion_Last(vf) ==
    vf[CHOOSE i \in 1..Len(vf) :
          /\ \A j \in 1..Len(vf) : vf[j].version <= vf[i].version
          /\ \A j \in (i + 1)..Len(vf) : vf[j].version < vf[i].version]

\* max(versioned_files, key=lambda x: x[1]): the first item with the largest key
MaxByVersion(vf) ==
    vf[CHOOSE i \in 1..Len(vf) :
          /\ \A j \in 1..Len(vf) : vf[j].version <= vf[i].version
          /\ \A j \in 1..(i - 1) : vf[j].version < vf[i].version]

\* The body of the function over a directory given as (exists, dir).  The
\* generator returned by iterdir() is always true, so "if not contents" never
\* returns; a missing directory makes the listing raise.
LatestIn(exists, dir, filepath, extension, substring) ==
    IF filepath = None THEN Raise("AttributeError")
    ELSE IF ~exists THEN Raise("FileNotFoundError")
    ELSE LET ext == NormalizeExt(extension)
             versioned_files == VersionedOf(LatestCandidates(dir, ext, substring))
         IN  IF Len(versioned_files) > 0
             THEN Return(MaxByVersion(versioned_files).file.name)
             ELSE Return(None)

get_latest_version_file_from_dir(filepath, extension, substring) ==
    LatestIn(dirExists, contents, filepath, extension, substring)

(***************************************************************************)
(* get_next_version_from_dir                                               *)
(***************************************************************************)
\* the three "continue" tests of the loop
NextPasses(item, ext, substring) ==
    /\ item.isFile
    /\ Suffix(item.name) = ext
    /\ ~(substring # None /\ substring # <<>> /\ ~Contains(item.name, substring))

\* item.stem[-padding:].isdigit()
IsVersioned(item, padding) == IsDigitStr(LastChars(Stem(item.name), padding))

\* versioned_files: int(item.stem[-padding:]) of every passing item whose
\* last `padding` characters are digits
RECURSIVE NextVersions(_, _, _, _)
NextVersions(items, ext, substring, padding) ==
    IF Len(items) = 0 THEN <<>>
    ELSE LET item == Head(items)
         IN  (IF NextPasses(item, ext, substring) /\ IsVersioned(item, padding)
              THEN <<ParseInt(LastChars(Stem(item.name), padding))>>
              ELSE <<>>) \o NextVersions(Tail(items), ext, substring, padding)

\* max(versioned_files)
MaxOf(vs) == CHOOSE m \in {vs[i] : i \in 1..Len(vs)} : \A i \in 1..Len(vs) : vs[i] <= m

NextIn(exists, dir, filepath, extension, substring, padding) ==
    IF filepath = None \/ ~exists THEN Return(ZFill(<<"1">>, padding))
    ELSE LET ext == NormalizeExt(extension)
             versioned_files == NextVersions(dir, ext, substring, padding)
         IN  IF Len(versioned_files) > 0
             THEN Return(ZFill(IntToStr(MaxOf(versioned_files) + 1), padding))
             ELSE Return(ZFill(<<"1">>, padding))

get_next_version_from_dir(filepath, extension, substring, padding) ==
    NextIn(dirExists, contents, filepath, extension, substring, padding)

(***************************************************************************)
(* sort_path_list.  A path is the text of its as_posix().  A key is a list *)
(* of tokens; a token is an int (isInt, num) or a str (text).              *)
(***************************************************************************)
\* ord(c) of the characters that occur in the modelled paths
CharCode(c) ==
    CASE c = "." -> 46 [] c = "/" -> 47 [] c = "_" -> 95
      [] c = "a" -> 97 [] c = "d" -> 100 [] c = "t" -> 116 [] c = "x" -> 120
      [] c = "U+0663" -> 1635
      [] OTHER -> 48 + DigitVal(c)

\* s < t on str: by code point at the first difference, a proper prefix first
RECURSIVE StrLess(_, _)
StrLess(s, t) ==
    IF Len(t) = 0 THEN FALSE
    ELSE IF Len(s) = 0 THEN TRUE
    ELSE IF Head(s) # Head(t) THEN CharCode(Head(s)) < CharCode(Head(t))
    ELSE StrLess(Tail(s), Tail(t))

\* length of the longest prefix of s made of characters of the class [0-9]
\* (wantDigits) or of other characters
RECURSIVE SpanLen(_, _)
SpanLen(s, wantDigits) ==
    IF Len(s) = 0 \/ ((Head(s) \in Digits) # wantDigits) THEN 0
    ELSE 1 + SpanLen(Tail(s), wantDigits)

\* the split on the pattern ([0-9]): every digit is a run of its own
RECURSIVE ReSplit_SingleDigit(_)
ReSplit_SingleDigit(s) ==
    LET n == SpanLen(s, FALSE)
        rest == SubSeq(s, n + 1, Len(s))
    IN  IF Len(rest) = 0 THEN <<SubSeq(s, 1, n)>>
        ELSE <<SubSeq(s, 1, n), SubSeq(rest, 1, 1)>>
             \o ReSplit_SingleDigit(SubSeq(rest, 2, Len(rest)))

\* re.split(r"([0-9]+)", s): the text between the digit runs and, the pattern
\* being a group, the digit runs themselves
RECURSIVE ReSplit(_)
ReSplit(s) ==
    LET n == SpanLen(s, FALSE)
        rest == SubSeq(s, n + 1, Len(s))
        d == SpanLen(rest, TRUE)
    IN  IF Len(rest) = 0 THEN <<SubSeq(s, 1, n)>>
        ELSE <<SubSeq(s, 1, n), SubSeq(rest, 1, d)>>
             \o ReSplit(SubSeq(rest, d + 1, Len(rest)))

IntTok(n) == [isInt |-> TRUE, num |-> n, text |-> <<>>]
StrTok(t) == [isInt |-> FALSE, num |-> 0, text |-> t]

\* the key that keeps every part a str
alphanum_key_NoInt(path) ==
    LET parts == ReSplit(path)
    IN  [i \in 1..Len(parts) |-> StrTok(parts[i])]

\* [int(part) if part.isdigit() else part for part in parts]
alphanum_key(path) ==
    LET parts == ReSplit(path)
    IN  [i \in 1..Len(parts) |->
            IF IsDigitStr(parts[i]) THEN IntTok(ParseInt(parts[i])) ELSE StrTok(parts[i])]

\* first index at which two keys differ, 0 when one is a prefix of the other
FirstDiff(k1, k2) ==
    LET m == IF Len(k1) < Len(k2) THEN Len(k1) ELSE Len(k2)
        D == {i \in 1..m : k1[i] # k2[i]}
    IN  IF D = {} THEN 0 ELSE CHOOSE i \in D : \A j \in D : i <= j

\* comparing the keys orders an int against a str: TypeError
KeyTypeError(k1, k2) ==
    FirstDiff(k1, k2) # 0 /\ k1[FirstDiff(k1, k2)].isInt # k2[FirstDiff(k1, k2)].isInt

\* k1 < k2 on lists
KeyLess(k1, k2) ==
    LET i == FirstDiff(k1, k2)
    IN  IF i = 0 THEN Len(k1) < Len(k2)
        ELSE IF k1[i].isInt THEN k1[i].num < k2[i].num
        ELSE StrLess(k1[i].text, k2[i].text)

\* x placed before the first item of the sorted list that is greater than it
RECURSIVE InsertSorted(_, _)
InsertSorted(x, sortedSeq) ==
    IF Len(sortedSeq) = 0 THEN <<x>>
    ELSE IF KeyLess(alphanum_key(x), alphanum_key(Head(sortedSeq)))
         THEN <<x>> \o sortedSeq
         ELSE <<Head(sortedSeq)>> \o InsertSorted(x, Tail(sortedSeq))

\* sorted(path_objs, key=alphanum_key): ascending and stable
RECURSIVE Sorted(_)
Sorted(path_objs) ==
    IF Len(path_objs) = 0 THEN <<>>
    ELSE InsertSorted(path_objs[Len(path_objs)],
                      Sorted(SubSeq(path_objs, 1, Len(path_objs) - 1)))

\* path_objs is None or names the list held in `paths`.  A comparison of an
\* int with a str raises; which pairs sorted() compares is its own business,
\* so any such pair of keys in the list counts.
sort_path_list(path_objs) ==
    IF path_objs = None THEN Return(None)
    ELSE IF \E i, j \in 1..Len(paths) :
               KeyTypeError(alphanum_key(paths[i]), alphanum_key(paths[j]))
         THEN Raise("TypeError")
         ELSE Return(Sorted(paths))

(***************************************************************************)
(* Inputs: directories and arguments.                                      *)
(***************************************************************************)
SeqsUpTo(S, n) == UNION {[1..k -> S] : k \in 1..n}

NamesOf(stemChars, extChars, maxStem) ==
    {s \o <<".", e>> : s \in SeqsUpTo(stemChars, maxStem), e \in extChars}

EntriesOf(stemChars, extChars, kinds, maxStem) ==
    [name : NamesOf(stemChars, extChars, maxStem), isFile : kinds]

\* a directory never lists one name twice
DistinctNames(dir) ==
    \A i, j \in 1..Len(dir) : dir[i].name = dir[j].name => i = j

DirsOf(entries, maxEntries) ==
    {dir \in UNION {[1..k -> entries] : k \in 0..maxEntries} : DistinctNames(dir)}

Filepaths == {None, "dir"}
Extensions == {<<"t">>, <<".", "t">>}
Substrings == {None, <<"d">>, <<"0">>}
Paddings == 1..MaxPadding

InitDirWith(dirs) ==
    /\ dirExists \in BOOLEAN
    /\ contents \in dirs
    /\ (~dirExists => contents = <<>>)
    /\ paths = <<>>
    /\ call = NoCall
    /\ result = NoResult
    /\ ExceptFsIdle

CallLatest ==
    \E filepath \in Filepaths, extension \in Extensions, substring \in Substrings :
        /\ call = NoCall
        /\ call' = [fn |-> "get_latest", filepath |-> filepath,
                    extension |-> extension, substring |-> substring]
        /\ result' = get_latest_version_file_from_dir(filepath, extension, substring)
        /\ UNCHANGED <<dirExists, contents, paths, exceptFs>>

CallNext ==
    \E filepath \in Filepaths, extension \in Extensions, substring \in Substrings,
       padding \in Paddings :
        /\ call = NoCall
        /\ call' = [fn |-> "get_next", filepath |-> filepath,
                    extension |-> extension, substring |-> substring,
                    padding |-> padding]
        /\ result' = get_next_version_from_dir(filepath, extension, substring, padding)
        /\ UNCHANGED <<dirExists, contents, paths, exceptFs>>

NextDir == CallLatest \/ CallNext

\* Spec: directories of several entries, files and directories, two suffixes
Init == InitDirWith(DirsOf(EntriesOf({"0", "9"}, {"t", "x"}, BOOLEAN, MaxStemLen),
                           MaxEntries))
Spec == Init /\ [][NextDir]_vars

\* SpecVer: longer stems of letters and digits, regular files of one suffix
InitVer == InitDirWith(DirsOf(EntriesOf({"a", "0", "9"}, {"t"}, {TRUE}, MaxVerStemLen),
                              MaxVerEntries))
SpecVer == InitVer /\ [][NextDir]_vars

\* SpecTie: regular files of one suffix whose stems are digits, so that
\* several of them carry the same number (9.t and 09.t)
InitTie == InitDirWith(DirsOf(EntriesOf({"0", "9"}, {"t"}, {TRUE}, MaxTieStemLen),
                              MaxTieEntries))
SpecTie == InitTie /\ [][NextDir]_vars

\* SpecSort: lists of paths of letters and digits handed to sort_path_list
PathLists ==
    UNION {[1..k -> SeqsUpTo({"a", "1", "2"}, MaxPathLen)] : k \in 0..MaxPaths}

InitSort ==
    /\ dirExists = FALSE
    /\ contents = <<>>
    /\ paths \in PathLists
    /\ call = NoCall
    /\ result = NoResult
    /\ ExceptFsIdle

CallSort ==
    \E path_objs \in {None, "paths"} :
        /\ call = NoCall
        /\ call' = [fn |-> "sort_path_list", path_objs |-> path_objs]
        /\ result' = sort_path_list(path_objs)
        /\ UNCHANGED <<dirExists, contents, paths, exceptFs>>

SpecSort == InitSort /\ [][CallSort]_vars

\* SpecSortDigits: paths that also hold a digit from outside ASCII
InitSortDigits ==
    /\ dirExists = FALSE
    /\ contents = <<>>
    /\ paths \in UNION {[1..k -> SeqsUpTo({"a", "1", "U+0663"}, MaxPathLen)] : k \in 0..MaxPaths}
    /\ call = NoCall
    /\ result = NoResult
    /\ ExceptFsIdle

SpecSortDigits == InitSortDigits /\ [][CallSort]_vars

\* SpecKey: one text, the empty one included, handed to the key of the sort
KeyTexts == UNION {[1..k -> {"a", "0", "1"}] : k \in 0..MaxKeyLen}

InitKey ==
    /\ dirExists = FALSE
    /\ contents = <<>>
    /\ paths \in {<<s>> : s \in KeyTexts}
    /\ call = NoCall
    /\ result = NoResult
    /\ ExceptFsIdle

CallKey ==
    /\ call = NoCall
    /\ call' = [fn |-> "alphanum_key"]
    /\ result' = Return(alphanum_key(paths[1]))
    /\ UNCHANGED <<dirExists, contents, paths, exceptFs>>

SpecKey == InitKey /\ [][CallKey]_vars

(***************************************************************************)
(* core_utils.func.once.  A thread is idle or at a line of the wrapper;    *)
(* reads and writes of the closure cells are single steps, the lock is     *)
(* held by one thread at most (0: free).                                   *)
(***************************************************************************)
\* the value the wrapped function returns (return 42), an opaque value
FuncValue == "42"

FsIdle ==
    /\ dirExists = FALSE
    /\ contents = <<>>
    /\ paths = <<>>
    /\ call = NoCall
    /\ result = NoResult

Goto(t, label) == pc' = [pc EXCEPT ![t] = label]
Finish(t, outcome) ==
    /\ ret' = [ret EXCEPT ![t] = Append(@, outcome)]
    /\ Goto(t, "idle")

\* a thread calls wrapper(*args, **kwargs)
OnceCall(t) ==
    /\ pc[t] = "idle"
    /\ Len(ret[t]) < MaxCalls
    /\ Goto(t, "check")
    /\ UNCHANGED <<has_run, once_result, lock, ret, ran, funcRaises, exceptOnce>>

\* if has_run:                       (outside the lock)
OnceCheck(t) ==
    /\ pc[t] = "check"
    /\ Goto(t, IF has_run THEN "fast_return" ELSE "acquire")
    /\ UNCHANGED <<has_run, once_result, lock, ret, ran, funcRaises, exceptOnce>>

\*     return result
OnceFastReturn(t) ==
    /\ pc[t] = "fast_return"
    /\ Finish(t, Return(once_result))
    /\ UNCHANGED <<has_run, once_result, lock, ran, funcRaises, exceptOnce>>

\* with lock:
OnceAcquire(t) ==
    /\ pc[t] = "acquire"
    /\ lock = 0
    /\ lock' = t
    /\ Goto(t, "check_locked")
    /\ UNCHANGED <<has_run, once_result, ret, ran, funcRaises, exceptOnce>>

\* the second test skipped: the thread goes on to run the function
OnceCheckLocked_NoRecheck(t) ==
    /\ pc[t] = "check_locked"
    /\ Goto(t, "set_has_run")
    /\ UNCHANGED <<has_run, once_result, lock, ret, ran, funcRaises, exceptOnce>>

\*     if has_run:                   (inside the lock)
OnceCheckLocked(t) ==
    /\ pc[t] = "check_locked"
    /\ Goto(t, IF has_run THEN "locked_return" ELSE "set_has_run")
    /\ UNCHANGED <<has_run, once_result, lock, ret, ran, funcRaises, exceptOnce>>

\*     has_run = True
OnceSetHasRun(t) ==
    /\ pc[t] = "set_has_run"
    /\ has_run' = TRUE
    /\ Goto(t, "call_func")
    /\ UNCHANGED <<once_result, lock, ret, ran, funcRaises, exceptOnce>>

\*     result = func(*args, **kwargs): the function starts
OnceFuncStart(t) ==
    /\ pc[t] = "call_func"
    /\ ran' = Append(ran, <<t, Len(ret[t]) + 1>>)
    /\ Goto(t, "in_func")
    /\ UNCHANGED <<has_run, once_result, lock, ret, funcRaises, exceptOnce>>

\* the function raised, and has_run is cleared for another try
OnceFuncEnd_RetryAfterRaise(t) ==
    /\ pc[t] = "in_func"
    /\ IF funcRaises
       THEN /\ lock' = 0
            /\ has_run' = FALSE
            /\ Finish(t, Raise("Exception"))
            /\ UNCHANGED once_result
       ELSE /\ once_result' = FuncValue
            /\ Goto(t, "locked_return")
            /\ UNCHANGED <<has_run, lock, ret>>
    /\ UNCHANGED <<ran, funcRaises, exceptOnce>>

\* the function ends: its value is stored in result, or its exception leaves
\* the with block, which releases the lock, and the wrapper
OnceFuncEnd(t) ==
    /\ pc[t] = "in_func"
    /\ IF funcRaises
       THEN /\ lock' = 0
            /\ Finish(t, Raise("Exception"))
            /\ UNCHANGED once_result
       ELSE /\ once_result' = FuncValue
            /\ Goto(t, "locked_return")
            /\ UNCHANGED <<lock, ret>>
    /\ UNCHANGED <<has_run, ran, funcRaises, exceptOnce>>

\* a return that leaves the lock held
OnceLockedReturn_KeepsLock(t) ==
    /\ pc[t] = "locked_return"
    /\ Finish(t, Return(once_result))
    /\ UNCHANGED <<has_run, once_result, lock, ran, funcRaises, exceptOnce>>

\*     return result                 (inside the lock, which is released)
OnceLockedReturn(t) ==
    /\ pc[t] = "locked_return"
    /\ lock' = 0
    /\ Finish(t, Return(once_result))
    /\ UNCHANGED <<has_run, once_result, ran, funcRaises, exceptOnce>>

InitOnce ==
    /\ has_run = FALSE
    /\ once_result = None
    /\ lock = 0
    /\ pc = [t \in Threads |-> "idle"]
    /\ ret = [t \in Threads |-> <<>>]
    /\ ran = <<>>
    /\ funcRaises \in BOOLEAN
    /\ FsIdle
    /\ ObjIdle
    /\ GcIdle
    /\ DataIdle
    /\ EnvIdle

NextOnce ==
    \E t \in Threads :
        \/ OnceCall(t)
        \/ OnceCheck(t)
        \/ OnceFastReturn(t)
        \/ OnceAcquire(t)
        \/ OnceCheckLocked(t)
        \/ OnceSetHasRun(t)
        \/ OnceFuncStart(t)
        \/ OnceFuncEnd(t)
        \/ OnceLockedReturn(t)

SpecOnce == InitOnce /\ [][NextOnce]_vars

\* the wrapped function calls the wrapper itself, from the thread that runs it
OnceReenter(t) ==
    /\ pc[t] = "in_func"
    /\ Len(ret[t]) + 1 < MaxCalls
    /\ Goto(t, "re_check")
    /\ UNCHANGED <<has_run, once_result, lock, ret, ran, funcRaises, exceptOnce>>

\* if has_run: return result, back in the function; otherwise the thread
\* goes on to "with lock", a lock that it holds itself and is never given
OnceReenterCheck(t) ==
    /\ pc[t] = "re_check"
    /\ IF has_run
       THEN /\ ret' = [ret EXCEPT ![t] = Append(@, Return(once_result))]
            /\ Goto(t, "in_func")
       ELSE /\ Goto(t, "re_acquire")
            /\ UNCHANGED ret
    /\ UNCHANGED <<has_run, once_result, lock, ran, funcRaises, exceptOnce>>

NextOnceReentrant ==
    \/ NextOnce
    \/ \E t \in Threads : OnceReenter(t) \/ OnceReenterCheck(t)

\* SpecOnceFair: a thread that can take the next step of its call takes it,
\* the end of the wrapped function included; nothing makes a thread call
\* the wrapper, from the program or from the function
SpecOnceFair ==
    /\ InitOnce
    /\ [][NextOnceReentrant]_vars
    /\ \A t \in Threads :
           WF_vars(\/ OnceCheck(t) \/ OnceFastReturn(t) \/ OnceAcquire(t)
                   \/ OnceCheckLocked(t) \/ OnceSetHasRun(t) \/ OnceFuncStart(t)
                   \/ OnceFuncEnd(t) \/ OnceLockedReturn(t) \/ OnceReenterCheck(t))

(***************************************************************************)
(* core_utils.func.freeze_gc.  A frame of gcStack is a call of a wrapper:  *)
(* its local was_enabled, the line it is at, and whether the wrapped       *)
(* function raised; `before` keeps the flag as it was when the call was    *)
(* made.  The wrapped function may call another wrapped function; it does  *)
(* not switch the collector itself.                                        *)
(***************************************************************************)
Top(t) == gcStack[t][Len(gcStack[t])]
SetTop(t, frame) ==
    gcStack' = [gcStack EXCEPT ![t] = [@ EXCEPT ![Len(@)] = frame]]

\* the program calls gc.enable() or gc.disable() between two wrapped calls
GcProgramSets(t) ==
    \E v \in BOOLEAN :
        /\ Len(gcStack[t]) = 0
        /\ gc_enabled # v
        /\ gc_enabled' = v
        /\ UNCHANGED <<gcStack, gcLog, exceptGc>>

\* wrapper(*args, **kwargs) is called, by the program or by a wrapped
\* function: was_enabled = gc.isenabled()
GcEnter(t) ==
    /\ IF Len(gcStack[t]) = 0 THEN TRUE ELSE Top(t).at = "body"
    /\ Len(gcStack[t]) < MaxGcDepth
    /\ Len(gcLog) + Len(gcStack[t]) < MaxGcCalls
    /\ gcStack' = [gcStack EXCEPT ![t] =
                      Append(@, [was_enabled |-> gc_enabled, before |-> gc_enabled,
                                 at |-> "disable", raised |-> FALSE])]
    /\ UNCHANGED <<gc_enabled, gcLog, exceptGc>>

\* gc.disable()
GcDisable(t) ==
    /\ Len(gcStack[t]) > 0
    /\ Top(t).at = "disable"
    /\ gc_enabled' = FALSE
    /\ SetTop(t, [Top(t) EXCEPT !.at = "body"])
    /\ UNCHANGED <<gcLog, exceptGc>>

\* result = func(*args, **kwargs) returns, or raises
GcBodyEnd(t) ==
    \E raises \in BOOLEAN :
        /\ Len(gcStack[t]) > 0
        /\ Top(t).at = "body"
        /\ SetTop(t, [Top(t) EXCEPT !.at = "finally", !.raised = raises])
        /\ UNCHANGED <<gc_enabled, gcLog, exceptGc>>

\* a finally that enables the collector whatever was_enabled holds
GcFinally_AlwaysEnable(t) ==
    /\ Len(gcStack[t]) > 0
    /\ Top(t).at = "finally"
    /\ gc_enabled' = TRUE
    /\ gcLog' = Append(gcLog, [before |-> Top(t).before, after |-> gc_enabled',
                               raised |-> Top(t).raised, depth |-> Len(gcStack[t])])
    /\ gcStack' = [gcStack EXCEPT ![t] = SubSeq(@, 1, Len(@) - 1)]
    /\ UNCHANGED exceptGc

\* finally: if was_enabled: gc.enable(); the call is over
GcFinally(t) ==
    /\ Len(gcStack[t]) > 0
    /\ Top(t).at = "finally"
    /\ gc_enabled' = (IF Top(t).was_enabled THEN TRUE ELSE gc_enabled)
    /\ gcLog' = Append(gcLog, [before |-> Top(t).before, after |-> gc_enabled',
                               raised |-> Top(t).raised, depth |-> Len(gcStack[t])])
    /\ gcStack' = [gcStack EXCEPT ![t] = SubSeq(@, 1, Len(@) - 1)]
    /\ UNCHANGED exceptGc

InitGc ==
    /\ gc_enabled \in BOOLEAN
    /\ gcStack = [t \in Threads |-> <<>>]
    /\ gcLog = <<>>
    /\ FsIdle
    /\ ObjIdle
    /\ OnceIdle
    /\ DataIdle
    /\ EnvIdle

\* the calls of one thread, one after the other or nested
NextGc ==
    \/ GcProgramSets(1)
    \/ GcEnter(1)
    \/ GcDisable(1)
    \/ GcBodyEnd(1)
    \/ GcFinally(1)

SpecGc == InitGc /\ [][NextGc]_vars

\* the wrapped calls of several threads, the decorator alone switching the
\* collector, which is one flag of the interpreter for all threads
NextGcThreads ==
    \E t \in Threads :
        \/ GcEnter(t)
        \/ GcDisable(t)
        \/ GcBodyEnd(t)
        \/ GcFinally(t)

SpecGcThreads == InitGc /\ [][NextGcThreads]_vars

(***************************************************************************)
(* core_utils.structured.  A Python value is a record: a str with its      *)
(* text, a list with its items, a dict with its (key, val) pairs in        *)
(* insertion order, or None.  An XML element has a tag, a text (None when  *)
(* it has none) and children.  A file is the document it holds.            *)
(***************************************************************************)
PyNone == [type |-> "none", text |-> "", items |-> <<>>]
PyStr(text) == [type |-> "str", text |-> text, items |-> <<>>]
PyList(items) == [type |-> "list", text |-> "", items |-> items]
PyDict(pairs) == [type |-> "dict", text |-> "", items |-> pairs]
Pair(key, val) == [key |-> key, val |-> val]

Exists(f) == f.format # "absent"

\* ElementTree.Element(tag), with its text and children set
Element(tag, text, children) == [tag |-> tag, text |-> text, children |-> children]

RECURSIVE dict_to_xml(_, _)
dict_to_xml(data, tag) ==
    IF data.type = "dict"
    THEN Element(tag, None,
                 [i \in 1..Len(data.items) |->
                     dict_to_xml(data.items[i].val, data.items[i].key)])
    ELSE IF data.type = "list"
    THEN Element(tag, None,
                 [i \in 1..Len(data.items) |-> dict_to_xml(data.items[i], "item")])
    ELSE Element(tag, data.text, <<>>)

\* ElementTree.indent: an element with children gets the line break and the
\* indentation as text when it has no text; leaves keep theirs
RECURSIVE Indent(_)
Indent(e) ==
    IF Len(e.children) = 0 THEN e
    ELSE Element(e.tag,
                 IF e.text = None \/ e.text = "" THEN "\n    " ELSE e.text,
                 [i \in 1..Len(e.children) |-> Indent(e.children[i])])

\* tree.write then ElementTree.parse: an element whose text is empty is
\* written without text and read back with text None
RECURSIVE Serialize(_)
Serialize(e) ==
    Element(e.tag,
            IF e.text = "" THEN None ELSE e.text,
            [i \in 1..Len(e.children) |-> Serialize(e.children[i])])

JsonFile(data) == [format |-> "json", body |-> data]
YamlFile(data) == [format |-> "yaml", body |-> data]
XmlFile(data) == [format |-> "xml", body |-> Serialize(Indent(dict_to_xml(data, "root")))]

\* the rows csv.DictWriter or csv.writer put in the file, fieldnames=None
CsvFile(data) ==
    LET rows == data.items
        first == rows[1]
    IN  [format |-> "csv",
         body |->
            IF first.type = "dict"
            THEN <<[k \in 1..Len(first.items) |-> first.items[k].key]>>
                 \o [r \in 1..Len(rows) |->
                        [k \in 1..Len(first.items) |-> rows[r].items[k].val.text]]
            ELSE [r \in 1..Len(rows) |->
                    [k \in 1..Len(rows[r].items) |-> rows[r].items[k].text]]]

\* the file at the path after the call, f being the file before it
export_data_to_json(f, data, overwrite) ==
    IF ~overwrite /\ Exists(f) THEN f ELSE JsonFile(data)

export_data_to_yaml(f, data, overwrite) ==
    IF ~overwrite /\ Exists(f) THEN f ELSE YamlFile(data)

\* the export that writes whatever overwrite says
export_data_to_xml_AlwaysWrites(f, data, overwrite) == XmlFile(data)

export_data_to_xml(f, data, overwrite) ==
    IF ~overwrite /\ Exists(f) THEN f ELSE XmlFile(data)

export_data_to_csv(f, data, overwrite) ==
    IF ~overwrite /\ Exists(f) THEN f
    ELSE IF Len(data.items) = 0 THEN f
    ELSE CsvFile(data)

\* result[child.tag] = child_data, or the values of a repeated tag in a list
AddChild(pairs, tag, v) ==
    IF \E i \in 1..Len(pairs) : pairs[i].key = tag
    THEN LET i == CHOOSE j \in 1..Len(pairs) : pairs[j].key = tag
             old == pairs[i].val
         IN  [pairs EXCEPT ![i] =
                 Pair(tag, IF old.type = "list" THEN PyList(Append(old.items, v))
                           ELSE PyList(<<old, v>>))]
    ELSE Append(pairs, Pair(tag, v))

RECURSIVE xml_to_dict(_)
RECURSIVE ChildrenAsDict(_, _, _)
ChildrenAsDict(children, k, pairs) ==
    IF k > Len(children) THEN pairs
    ELSE ChildrenAsDict(children, k + 1,
                        AddChild(pairs, children[k].tag, xml_to_dict(children[k])))

xml_to_dict(element) ==
    IF Len(element.children) = 0
    THEN PyStr(IF element.text = None THEN "" ELSE element.text)
    ELSE IF Cardinality({element.children[i].tag : i \in 1..Len(element.children)}) = 1
    THEN PyList([i \in 1..Len(element.children) |-> xml_to_dict(element.children[i])])
    ELSE PyDict(ChildrenAsDict(element.children, 1, <<>>))

import_data_from_xml(f) ==
    IF ~Exists(f) THEN Return(PyNone)
    ELSE IF f.format # "xml" THEN Raise("ParseError")
    ELSE Return(xml_to_dict(f.body))

\* SpecExport: the four exports called in turn on one path
ExportData == {PyDict(<<Pair("a", PyStr("x")), Pair("b", PyStr("y"))>>),
               PyList(<<PyStr("x")>>),
               PyList(<<>>)}
CsvData == {PyList(<<>>),
            PyList(<<PyDict(<<Pair("a", PyStr("x"))>>)>>),
            PyList(<<PyList(<<PyStr("a")>>), PyList(<<PyStr("y")>>)>>)}

Exported(fn, data, overwrite, after) ==
    /\ stored' = after
    /\ exported' = Append(exported, [fn |-> fn, data |-> data, overwrite |-> overwrite,
                                     before |-> stored, after |-> after])

ExportJson ==
    \E data \in ExportData, overwrite \in BOOLEAN :
        /\ Len(exported) < MaxExports
        /\ Exported("json", data, overwrite, export_data_to_json(stored, data, overwrite))
        /\ UNCHANGED <<imported, exceptData>>

ExportYaml ==
    \E data \in ExportData, overwrite \in BOOLEAN :
        /\ Len(exported) < MaxExports
        /\ Exported("yaml", data, overwrite, export_data_to_yaml(stored, data, overwrite))
        /\ UNCHANGED <<imported, exceptData>>

ExportXml ==
    \E data \in ExportData, overwrite \in BOOLEAN :
        /\ Len(exported) < MaxExports
        /\ Exported("xml", data, overwrite, export_data_to_xml(stored, data, overwrite))
        /\ UNCHANGED <<imported, exceptData>>

ExportCsv ==
    \E data \in CsvData, overwrite \in BOOLEAN :
        /\ Len(exported) < MaxExports
        /\ Exported("csv", data, overwrite, export_data_to_csv(stored, data, overwrite))
        /\ UNCHANGED <<imported, exceptData>>

InitExport ==
    /\ stored = Absent
    /\ exported = <<>>
    /\ imported = NoResult
    /\ FsIdle
    /\ ObjIdle
    /\ OnceIdle
    /\ GcIdle
    /\ EnvIdle

NextExport == ExportJson \/ ExportYaml \/ ExportXml \/ ExportCsv

SpecExport == InitExport /\ [][NextExport]_vars

\* SpecXml: flat data exported to XML and imported again
XmlKeys == {"a", "b", "c"}
XmlTexts == {"", "x", "y"}
\* the dicts of distinct keys to str values and the lists of str
FlatData ==
    LET DistinctKeys(k) ==
            {ks \in [1..k -> XmlKeys] : \A i, j \in 1..k : ks[i] = ks[j] => i = j}
    IN  UNION {{PyDict([i \in 1..k |-> Pair(keys[i], PyStr(vals[i]))]) :
                   keys \in DistinctKeys(k), vals \in [1..k -> XmlTexts]}
               \cup {PyList([i \in 1..k |-> PyStr(vals[i])]) :
                        vals \in [1..k -> XmlTexts]} :
                  k \in 0..MaxXmlItems}

ExportFlatXml ==
    \E data \in FlatData, overwrite \in BOOLEAN :
        /\ Len(exported) < MaxXmlExports
        /\ imported = NoResult
        /\ Exported("xml", data, overwrite, export_data_to_xml(stored, data, overwrite))
        /\ UNCHANGED <<imported, exceptData>>

ImportXml ==
    /\ imported = NoResult
    /\ imported' = import_data_from_xml(stored)
    /\ UNCHANGED <<stored, exported, exceptData>>

NextXml == ExportFlatXml \/ ImportXml

SpecXml == InitExport /\ [][NextXml]_vars

(***************************************************************************)
(* core_utils.env.load_env_file.  Lines, names and values are str.         *)
(***************************************************************************)
IsSpace(c) == c \in {" ", "\t"}

RECURSIVE LStrip(_)
LStrip(s) == IF Len(s) > 0 /\ IsSpace(Head(s)) THEN LStrip(Tail(s)) ELSE s

RECURSIVE RStrip(_)
RStrip(s) ==
    IF Len(s) > 0 /\ IsSpace(s[Len(s)]) THEN RStrip(SubSeq(s, 1, Len(s) - 1)) ELSE s

\* s.strip()
StrStrip(s) == RStrip(LStrip(s))

\* s.find(c) + 1: the first position of c in s, 0 without any
Find(s, c) ==
    IF \E i \in 1..Len(s) : s[i] = c
    THEN CHOOSE i \in 1..Len(s) : s[i] = c /\ \A j \in 1..(i - 1) : s[j] # c
    ELSE 0

\* the loop of _strip_inline_comment from position i on
RECURSIVE ScanComment(_, _, _)
ScanComment(value, i, in_quote) ==
    IF i > Len(value) THEN value
    ELSE IF value[i] \in {"\"", "'"}
    THEN ScanComment(value, i + 1,
                     IF in_quote = None THEN value[i]
                     ELSE IF in_quote = value[i] THEN None ELSE in_quote)
    ELSE IF value[i] = "#" /\ in_quote = None THEN RStrip(SubSeq(value, 1, i - 1))
    ELSE ScanComment(value, i + 1, in_quote)

strip_inline_comment(value) == ScanComment(value, 1, None)

\* raw_value[1:-1] when the value starts and ends with the same quote
Unquote(raw_value) ==
    IF /\ Len(raw_value) > 0
       /\ raw_value[1] \in {"\"", "'"}
       /\ raw_value[Len(raw_value)] = raw_value[1]
    THEN SubSeq(raw_value, 2, Len(raw_value) - 1)
    ELSE raw_value

\* \w of the characters that occur in the modelled files
IsWordChar(c) == c \in {"A", "B", "o", "x", "y", "_"} \cup Digits

RECURSIVE WordSpan(_)
WordSpan(s) == IF Len(s) = 0 \/ ~IsWordChar(Head(s)) THEN 0 ELSE 1 + WordSpan(Tail(s))

\* os.path.expandvars: $name and ${name} give way to the value of a name
\* that is set and stay as they are otherwise; the value is not expanded
RECURSIVE ExpandVars(_, _)
ExpandVars(s, env) ==
    IF Len(s) = 0 THEN <<>>
    ELSE IF Head(s) # "$" THEN <<Head(s)>> \o ExpandVars(Tail(s), env)
    ELSE LET rest == Tail(s)
             w == WordSpan(rest)
             close == IF Len(rest) > 0 /\ rest[1] = "{" THEN Find(rest, "}") ELSE 0
             n == IF w > 0 THEN w ELSE close
             name == IF w > 0 THEN SubSeq(rest, 1, w) ELSE SubSeq(rest, 2, close - 1)
         IN  IF n = 0 THEN <<"$">> \o ExpandVars(rest, env)
             ELSE (IF name \in DOMAIN env THEN env[name]
                   ELSE <<"$">> \o SubSeq(rest, 1, n))
                  \o ExpandVars(SubSeq(rest, n + 1, Len(rest)), env)

\* os.environ[key] = value
SetEnv(env, key, value) ==
    [k \in DOMAIN env \cup {key} |-> IF k = key THEN value ELSE env[k]]

\* the assignment made whether or not the name is set already
Assign_AlwaysSets(env, key, value, overwrite) == SetEnv(env, key, value)

\* if overwrite or key not in os.environ: os.environ[key] = value
Assign(env, key, value, overwrite) ==
    IF overwrite \/ key \notin DOMAIN env THEN SetEnv(env, key, value) ELSE env

\* the name and the value a line assigns in the environment env; skip for a
\* blank line, a comment and a line without "="
ParseLine(text, env) ==
    LET line == StrStrip(text)
        eq == Find(line, "=")
        raw_value == Unquote(strip_inline_comment(
                         StrStrip(SubSeq(line, eq + 1, Len(line)))))
    IN  IF Len(line) = 0 THEN [skip |-> TRUE]
        ELSE IF line[1] = "#" \/ eq = 0 THEN [skip |-> TRUE]
        ELSE [skip |-> FALSE,
              key |-> StrStrip(SubSeq(line, 1, eq - 1)),
              value |-> ExpandVars(raw_value, env)]

\* the loop over the lines; putenv refuses the empty name with OSError
RECURSIVE LoadLines(_, _, _)
LoadLines(lines, env, overwrite) ==
    IF Len(lines) = 0 THEN [env |-> env, outcome |-> Return(None)]
    ELSE LET p == ParseLine(Head(lines), env)
         IN  IF p.skip THEN LoadLines(Tail(lines), env, overwrite)
             ELSE IF (overwrite \/ p.key \notin DOMAIN env) /\ p.key = <<>>
             THEN [env |-> env, outcome |-> Raise("OSError")]
             ELSE LoadLines(Tail(lines), Assign(env, p.key, p.value, overwrite), overwrite)

load_env_file(f, env, overwrite) ==
    IF ~f.exists THEN [env |-> env, outcome |-> Raise("FileNotFoundError")]
    ELSE LoadLines(f.lines, env, overwrite)

\* the lines of the modelled files: two names, plain, quoted, commented and
\* expanded values, and the lines the loader skips or cannot assign
EnvNames == {<<"A">>, <<"B">>}
EnvLines ==
    {name \o <<"=">> \o value :
        name \in EnvNames,
        value \in {<<"x">>, <<"y">>,
                   <<"\"", "x", " ", "#", "y", "\"">>,
                   <<"'", "y", "'", " ", "#", "x">>,
                   <<"$", "A", "x">>, <<"$", "A", "/", "$", "{", "B", "}">>}}
    \cup {<<" ", "A", " ", "=", " ", "x", " ">>,
          <<"#", "A", "=", "x">>,
          <<"A", "x">>,
          <<>>,
          <<"=", "x">>}

EnvFiles ==
    {[exists |-> FALSE, lines |-> <<>>]}
    \cup {[exists |-> TRUE, lines |-> ls] :
             ls \in UNION {[1..k -> EnvLines] : k \in 0..MaxEnvLines}}

\* each name unset, or set to "o" before the call
Environs ==
    {[k \in S |-> <<"o">>] : S \in SUBSET EnvNames}

InitEnv ==
    /\ environ \in Environs
    /\ envFile \in EnvFiles
    /\ loaded = NoCall
    /\ FsIdle
    /\ ObjIdle
    /\ OnceIdle
    /\ GcIdle
    /\ DataIdle

LoadEnvFile ==
    \E overwrite \in BOOLEAN :
        /\ loaded = NoCall
        /\ environ' = load_env_file(envFile, environ, overwrite).env
        /\ loaded' = [fn |-> "load_env_file", overwrite |-> overwrite,
                      before |-> environ,
                      outcome |-> load_env_file(envFile, environ, overwrite).outcome]
        /\ UNCHANGED <<envFile, exceptEnv>>

SpecEnv == InitEnv /\ [][LoadEnvFile]_vars

(***************************************************************************)
(* core_utils.size.ScaleHandler.  `scale` is the object: its unit and its  *)
(* length.  A length is a float; it is held as the number the object was   *)
(* built with followed by the float operations applied to it, in order,    *)
(* which determine its value.  `converted` is the last convert_to_unit     *)
(* call: the unit asked for, the object before the call, the outcome and   *)
(* the number of calls made so far.                                        *)
(***************************************************************************)
\* MM, CM, M, KM, IN, FT, YD, MI
SupportedUnits == {"mm", "cm", "m", "km", "in", "ft", "yd", "mi"}

\* _convert_<from>_to_cm and _convert_cm_to_<to>: the operation on num
Converter(from, to) ==
    IF to = "cm"
    THEN CASE from = "mm" -> "/ 10.0"
           [] from = "m"  -> "* 100.0"
           [] from = "km" -> "* 100000.0"
           [] from = "in" -> "* 2.54"
           [] from = "ft" -> "* 30.48"
           [] from = "yd" -> "* 91.44"
           [] from = "mi" -> "* 160900.0"
    ELSE CASE to = "mm" -> "* 10.0"
           [] to = "m"  -> "/ 100.0"
           [] to = "km" -> "/ 100000.0"
           [] to = "in" -> "/ 2.54"
           [] to = "ft" -> "/ 30.48"
           [] to = "yd" -> "/ 91.44"
           [] to = "mi" -> "/ 160900.0"

\* a dispatch whose converters set the length and leave the unit as it was
_convert_to_unit_KeepsUnit(self, target) ==
    IF target \in SupportedUnits \ {"cm"}
    THEN LET after == [self EXCEPT !.length = Append(@, Converter("cm", target))]
         IN  [self |-> after, outcome |-> Return(after.length)]
    ELSE IF target = "cm"
    THEN [self |-> self, outcome |-> Return(self.length)]
    ELSE [self |-> self, outcome |-> Raise("ValueError")]

\* self._convert_to_unit(unit), self.unit being cm: the converter of the
\* target sets length and unit; cm passes; any other unit raises
_convert_to_unit(self, target) ==
    IF target \in SupportedUnits \ {"cm"}
    THEN LET after == [unit |-> target,
                       length |-> Append(self.length, Converter("cm", target))]
         IN  [self |-> after, outcome |-> Return(after.length)]
    ELSE IF target = "cm"
    THEN [self |-> self, outcome |-> Return(self.length)]
    ELSE [self |-> self, outcome |-> Raise("ValueError")]

\* self.convert_to_unit(unit): the object is first brought to cm by the
\* converter of its own unit, then to the target
convert_to_unit(self, target) ==
    IF self.unit \in SupportedUnits \ {"cm"}
    THEN _convert_to_unit([unit |-> "cm",
                           length |-> Append(self.length, Converter(self.unit, "cm"))],
                          target)
    ELSE IF self.unit = "cm"
    THEN _convert_to_unit(self, target)
    ELSE [self |-> self, outcome |-> Raise("ValueError")]

\* ScaleHandler(unit, length): any string is taken as the unit
InitScale ==
    /\ scale \in [unit : SupportedUnits \cup {"invalid"}, length : {<<"1.0">>}]
    /\ converted = NoCall
    /\ bar = [data |-> <<>>, index |-> 0]
    /\ nexts = <<>>
    /\ FsIdle /\ OnceIdle /\ GcIdle /\ DataIdle /\ EnvIdle

\* scale.convert_to_unit(target)
ConvertToUnit ==
    \E target \in SupportedUnits \cup {"invalid"} :
        LET nth == IF converted = NoCall THEN 0 ELSE converted.nth
            done == convert_to_unit(scale, target)
        IN  /\ nth < MaxConversions
            /\ scale' = done.self
            /\ converted' = [fn |-> "convert_to_unit", unit |-> target,
                             before |-> scale, outcome |-> done.outcome,
                             nth |-> nth + 1]
            /\ UNCHANGED <<bar, nexts, fsVars, onceVars, gcVars, dataVars, envVars>>

SpecScale == InitScale /\ [][ConvertToUnit]_vars

(***************************************************************************)
(* core_utils.size.convert_size and core.regex.validation_no_special_chars,*)
(* two functions of their argument alone.  `call` is the call with its     *)
(* argument, `result` what it returned.  The float s of convert_size is    *)
(* held in hundredths, an integer.                                         *)
(***************************************************************************)
\* convert_size(size_bytes).  i = int(math.floor(math.log(size_bytes, 1024)))
\* is the exact floor of the logarithm for every size_bytes below 2^26, the
\* range of the modelled arguments (above 2^49 the float logarithm is not);
\* size_bytes / p is exact, p being a power of two, and round(x, 2) rounds
\* that exact value to the nearest hundredth, a tie to the even one
convert_size(size_bytes) ==
    IF size_bytes = 0 THEN [s |-> 0, unit |-> "B"]
    ELSE LET size_name == <<"B", "KB", "MB", "GB", "TB", "PB", "EB", "ZB", "YB">>
             RECURSIVE FloorLog(_)
             FloorLog(n) == IF n < 1024 THEN 0 ELSE 1 + FloorLog(n \div 1024)
             i == FloorLog(size_bytes)
             p == 1024 ^ i
             q == (100 * size_bytes) \div p
             r == (100 * size_bytes) % p
             s == IF 2 * r < p THEN q
                  ELSE IF 2 * r > p THEN q + 1
                  ELSE IF q % 2 = 0 THEN q ELSE q + 1
         IN  [s |-> s, unit |-> size_name[i + 1]]

\* m = re.match(r"^[a-zA-Z0-9_]*$", string); m and string != "".  The class
\* takes the longest run it can from the start of the string, and $ matches
\* at the end of the string and also just before a newline that ends it
validation_no_special_chars(string) ==
    LET InClass(c) ==
            c \in {"a", "b", "c", "d", "e", "f", "g", "h", "i", "j", "k", "l", "m",
                   "n", "o", "p", "q", "r", "s", "t", "u", "v", "w", "x", "y", "z",
                   "A", "B", "C", "D", "E", "F", "G", "H", "I", "J", "K", "L", "M",
                   "N", "O", "P", "Q", "R", "S", "T", "U", "V", "W", "X", "Y", "Z",
                   "_"} \cup Digits
        RECURSIVE Span(_)
        Span(t) == IF Len(t) = 0 \/ ~InClass(Head(t)) THEN 0 ELSE 1 + Span(Tail(t))
        k == Span(string)
        m == \/ k = Len(string)
             \/ k = Len(string) - 1 /\ string[Len(string)] = "\n"
    IN  m /\ string # <<>>

\* the argument of the call: a byte count at or next to a sum of two powers
\* of two, or a string of letters, digits, underscores and other characters
InitPure ==
    LET Sizes == {n \in {2 ^ a + 2 ^ b + d : a \in 0..MaxSizeBits, b \in 0..MaxSizeBits,
                                           d \in (0 - MaxSizeOff)..MaxSizeOff} : n >= 0}
        Strings == UNION {[1..k -> {"a", "Z", "0", "_", " ", "-", "\n"}] : k \in 0..MaxStrLen}
    IN  /\ call \in {[fn |-> "convert_size", arg |-> n] : n \in Sizes}
                    \cup {[fn |-> "validation_no_special_chars", arg |-> t] : t \in Strings}
        /\ result = NoResult
        /\ dirExists = FALSE
        /\ contents = <<>>
        /\ paths = <<>>
        /\ ExceptFsIdle

CallConvertSize ==
    /\ call.fn = "convert_size"
    /\ result = NoResult
    /\ result' = Return(convert_size(call.arg))
    /\ UNCHANGED <<dirExists, contents, paths, call, exceptFs>>

CallValidation ==
    /\ call.fn = "validation_no_special_chars"
    /\ result = NoResult
    /\ result' = Return(validation_no_special_chars(call.arg))
    /\ UNCHANGED <<dirExists, contents, paths, call, exceptFs>>

NextPure == CallConvertSize \/ CallValidation

SpecPure == InitPure /\ [][NextPure]_vars

(***************************************************************************)
(* core_utils.text.ProgressBar.  `bar` is the object, its data and index;  *)
(* `nexts` is the outcome of each call of next(bar) in order.  The times   *)
(* the object keeps and the bar it draws on stderr have no part in what    *)
(* next returns; stderr is taken to accept what is written to it.          *)
(***************************************************************************)
\* ProgressBar(data): self.data = data; self.index = 0
InitBar ==
    /\ bar \in [data : UNION {[1..k -> {"a", "b", "c"}] : k \in 0..MaxBarLen},
                index : {0}]
    /\ nexts = <<>>
    /\ scale = [unit |-> "cm", length |-> <<"1.0">>]
    /\ converted = NoCall
    /\ FsIdle /\ OnceIdle /\ GcIdle /\ DataIdle /\ EnvIdle

\* a __next__ that hands out an element and leaves the index where it was
BarNext_IndexStays ==
    /\ Len(nexts) < Len(bar.data) + MaxMoreNexts
    /\ IF bar.index < Len(bar.data)
       THEN /\ nexts' = Append(nexts, Return(bar.data[bar.index + 1]))
            /\ bar' = bar
       ELSE /\ nexts' = Append(nexts, Raise("StopIteration"))
            /\ bar' = bar
    /\ UNCHANGED <<scale, converted, fsVars, onceVars, gcVars, dataVars, envVars>>

\* next(bar), also what a for loop over the bar calls, __iter__ being self:
\* result = self.data[self.index]; self.index += 1; return result, or
\* raise StopIteration once the index has reached len(self.data)
BarNext ==
    /\ Len(nexts) < Len(bar.data) + MaxMoreNexts
    /\ IF bar.index < Len(bar.data)
       THEN /\ nexts' = Append(nexts, Return(bar.data[bar.index + 1]))
            /\ bar' = [bar EXCEPT !.index = @ + 1]
       ELSE /\ nexts' = Append(nexts, Raise("StopIteration"))
            /\ bar' = bar
    /\ UNCHANGED <<scale, converted, fsVars, onceVars, gcVars, dataVars, envVars>>

SpecBar == InitBar /\ [][BarNext]_vars

(***************************************************************************)
(* Vocabulary of the properties, stated on names without the filters and   *)
(* loops of the functions.                                                 *)
(***************************************************************************)
Names(dir) == {dir[i].name : i \in 1..Len(dir)}

\* the extension argument with or without its leading dot
DottedExt(extension) ==
    IF Len(extension) > 0 /\ extension[1] = "." THEN extension ELSE <<".">> \o extension

\* name ends in the dotted extension and the extension is its whole suffix
HasExt(name, extension) ==
    LET e == DottedExt(extension)
    IN  /\ Len(name) > Len(e)
        /\ SubSeq(name, Len(name) - Len(e) + 1, Len(name)) = e
        /\ \A i \in 2..Len(e) : e[i] # "."

\* the stem of a name known to carry the extension
StemOf(name, extension) == SubSeq(name, 1, Len(name) - Len(DottedExt(extension)))

\* length of the run of digits at the end of s
RECURSIVE DigitRunLen(_)
DigitRunLen(s) ==
    IF Len(s) = 0 \/ s[Len(s)] \notin Digits THEN 0
    ELSE 1 + DigitRunLen(SubSeq(s, 1, Len(s) - 1))

Pow10(k) == IF k = 0 THEN 1 ELSE IF k = 1 THEN 10 ELSE IF k = 2 THEN 100
            ELSE IF k = 3 THEN 1000 ELSE IF k = 4 THEN 10000 ELSE 100000

\* value of the last k characters of s read as a decimal number
RECURSIVE TailValue(_, _)
TailValue(s, k) ==
    IF k = 0 THEN 0
    ELSE DigitVal(s[Len(s) - k + 1]) * Pow10(k - 1) + TailValue(s, k - 1)

\* value of the trailing digit run of s
RunValue(s) == TailValue(s, DigitRunLen(s))

LatestMatches(name, extension, substring) ==
    /\ HasExt(name, extension)
    /\ (substring = None \/ Contains(DirPosix \o <<"/">> \o name, substring))

LatestReturned ==
    call.fn = "get_latest" /\ result.kind = "return" /\ result.value # None

NextCalledOnDir ==
    call.fn = "get_next" /\ call.filepath # None /\ dirExists

\* the filter of get_next_version_from_dir on an entry
NextMatches(e, extension, substring) ==
    /\ e.isFile
    /\ HasExt(e.name, extension)
    /\ (substring = None \/ Contains(e.name, substring))

SetMax(S) == CHOOSE m \in S : \A x \in S : x <= m

\* C2: get_next_version_from_dir counts a matching file exactly when the
\* trailing digit run of its stem has length `padding`; the result is the
\* successor of the largest such number, or 1 without any.
C2_ExactPaddingOnly ==
    NextCalledOnDir =>
        LET exact == {RunValue(StemOf(contents[i].name, call.extension)) :
                        i \in {j \in 1..Len(contents) :
                                 /\ NextMatches(contents[j], call.extension, call.substring)
                                 /\ DigitRunLen(StemOf(contents[j].name, call.extension))
                                      = call.padding}}
        IN  result = Return(ZFill(IntToStr(SetMax(exact \cup {0}) + 1), call.padding))

\* the candidate versions the function recorded in the last call
RecordedVersions ==
    NextVersions(contents, NormalizeExt(call.extension), call.substring, call.padding)

NumDigits(n) == CHOOSE k \in 1..6 : Pow10(k - 1) <= n /\ n < Pow10(k)

EndsInPaddingDigits(stem, padding) ==
    Len(stem) >= padding /\ DigitRunLen(stem) >= padding

\* C4: get_next_version_from_dir returns "1" zero-padded and raises nothing
\* when the filepath is None, the directory is missing or empty, no entry
\* passes the filter, or no passing stem ends in `padding` digits.
C4_DefaultWithoutCandidate ==
    (/\ call.fn = "get_next"
     /\ \/ call.filepath = None
        \/ ~dirExists
        \/ \A i \in 1..Len(contents) :
              NextMatches(contents[i], call.extension, call.substring)
              => ~EndsInPaddingDigits(StemOf(contents[i].name, call.extension),
                                      call.padding))
    => result = Return([i \in 1..call.padding |-> IF i = call.padding THEN "1" ELSE "0"])

\* C5: get_latest_version_file_from_dir never returns an entry that is a
\* directory.
C5_LatestReturnsRegularFile ==
    LatestReturned =>
        \A i \in 1..Len(contents) : contents[i].name = result.value => contents[i].isFile

\* C6: for the arguments of a call, the regular files that pass the filter of
\* get_latest_version_file_from_dir are those that pass the filter of
\* get_next_version_from_dir.
C6_SameMatchingRule ==
    call.fn \in {"get_latest", "get_next"} =>
        LET ext == NormalizeExt(call.extension)
        IN  \A i \in 1..Len(contents) :
               contents[i].isFile =>
                  (LatestPasses(contents[i], ext, call.substring)
                   <=> NextPasses(contents[i], ext, call.substring))

\* C7: get_latest_version_file_from_dir on a directory that does not exist
\* returns None and raises nothing.
C7_LatestMissingDirReturnsNone ==
    (call.fn = "get_latest" /\ call.filepath # None /\ ~dirExists)
    => result = Return(None)

LatestCalledOnDir ==
    call.fn = "get_latest" /\ call.filepath # None /\ dirExists

\* a passing entry whose stem ends in a digit
HasVersionedMatch ==
    \E g \in Names(contents) :
        /\ LatestMatches(g, call.extension, call.substring)
        /\ DigitRunLen(StemOf(g, call.extension)) > 0

RecordedFiles ==
    VersionedOf(LatestCandidates(contents, NormalizeExt(call.extension), call.substring))

SortReturned == call.fn = "sort_path_list" /\ call.path_objs # None

Count(seq, x) == Cardinality({i \in 1..Len(seq) : seq[i] = x})

AllDigits(s) == Len(s) > 0 /\ \A i \in 1..Len(s) : s[i] \in Digits

\* p and q are the same text around one maximal digit run each, and the run
\* of p is the smaller number
SmallerInOneRun(p, q) ==
    \E a \in 0..Len(p), b \in 0..Len(p) :
        /\ a + b < Len(p)
        /\ a + b < Len(q)
        /\ SubSeq(p, 1, a) = SubSeq(q, 1, a)
        /\ SubSeq(p, Len(p) - b + 1, Len(p)) = SubSeq(q, Len(q) - b + 1, Len(q))
        /\ AllDigits(SubSeq(p, a + 1, Len(p) - b))
        /\ AllDigits(SubSeq(q, a + 1, Len(q) - b))
        /\ (a > 0 => p[a] \notin Digits)
        /\ (b > 0 => p[Len(p) - b + 1] \notin Digits)
        /\ TailValue(SubSeq(p, 1, Len(p) - b), Len(p) - b - a)
             < TailValue(SubSeq(q, 1, Len(q) - b), Len(q) - b - a)

KeyReturned == call.fn = "alphanum_key" /\ result.kind = "return"

\* number of digits at the front of s
RECURSIVE LeadingDigits(_)
LeadingDigits(s) ==
    IF Len(s) = 0 \/ Head(s) \notin Digits THEN 0 ELSE 1 + LeadingDigits(Tail(s))

\* key reads s from left to right: a str token free of digits, then, while
\* text remains, an int token that is the value of all the digits standing
\* there and the reading of what follows them
RECURSIVE Tokenizes(_, _)
Tokenizes(key, s) ==
    /\ Len(key) > 0
    /\ ~key[1].isInt
    /\ LET t == key[1].text
           after == SubSeq(s, Len(t) + 1, Len(s))
           d == LeadingDigits(after)
       IN  /\ \A i \in 1..Len(t) : t[i] \notin Digits
           /\ Len(t) <= Len(s)
           /\ SubSeq(s, 1, Len(t)) = t
           /\ IF Len(key) = 1 THEN Len(after) = 0
              ELSE /\ Len(key) >= 3
                   /\ key[2].isInt
                   /\ d > 0
                   /\ key[2].num = TailValue(SubSeq(after, 1, d), d)
                   /\ Tokenizes(SubSeq(key, 3, Len(key)), SubSeq(after, d + 1, Len(after)))

OtherForm(extension) ==
    IF extension[1] = "." THEN Tail(extension) ELSE <<".">> \o extension

\* two outcomes are the same kind with the same value, None or not
SameOutcome(a, b) ==
    /\ a.kind = b.kind
    /\ IF a.value = None \/ b.value = None
       THEN a.value = None /\ b.value = None
       ELSE a.value = b.value

\* C12: the leading dot of the extension is optional: on the same directory,
\* with the same substring and padding, get_latest_version_file_from_dir and
\* get_next_version_from_dir give the result of the call for the extension
\* written the other way.
C12_DotOptional ==
    /\ (call.fn = "get_latest" =>
           SameOutcome(result,
                       get_latest_version_file_from_dir(
                           call.filepath, OtherForm(call.extension), call.substring)))
    /\ (call.fn = "get_next" =>
           SameOutcome(result,
                       get_next_version_from_dir(
                           call.filepath, OtherForm(call.extension), call.substring,
                           call.padding)))

\* an extension given without the dot selected a file
C12_Witness ==
    /\ LatestReturned
    /\ call.extension[1] # "."
    /\ HasExt(result.value, call.extension)

\* the finished calls, as <<thread, number of the call in its thread>>
FinishedCalls == {<<t, i>> : t \in Threads, i \in 1..MaxCalls} \cap
                 {c \in Threads \X (1..MaxCalls) : c[2] <= Len(ret[c[1]])}

OutcomeOf(c) == ret[c[1]][c[2]]

\* C13: over every interleaving of the calls of every thread the wrapped
\* function is executed at most once.
C13_AtMostOnce == Len(ran) <= 1

\* a thread that passed the first test holds the lock and finds has_run set
\* by the thread that ran the function
C13_Witness ==
    /\ Len(ran) = 1
    /\ \E t \in Threads : pc[t] = "check_locked" /\ has_run /\ ran[1][1] # t

\* C14: every finished call of every thread returned the value produced by
\* the first execution of the wrapped function.
C14_EveryCallReturnsFirstValue ==
    ~funcRaises => \A c \in FinishedCalls : OutcomeOf(c) = Return(FuncValue)

\* C15: when the first execution raises, the exception reaches the caller
\* that ran the function, the function is not executed again, and every
\* other call returns None and raises nothing.
C15_RaiseThenNone ==
    funcRaises =>
        /\ Len(ran) <= 1
        /\ \A c \in FinishedCalls :
               OutcomeOf(c) = IF Len(ran) = 1 /\ c = ran[1]
                              THEN Raise("Exception") ELSE Return(None)

\* the call that raised is followed, in its thread, by a call that returned
\* None, and a call of another thread returned None
C15_Witness ==
    /\ funcRaises
    /\ Len(ran) = 1
    /\ <<ran[1][1], ran[1][2] + 1>> \in FinishedCalls
    /\ OutcomeOf(ran[1]) = Raise("Exception")
    /\ \E c \in FinishedCalls : c[1] # ran[1][1] /\ OutcomeOf(c) = Return(None)

\* C16: the wrapper returns None on the first call and on every later one,
\* also when the wrapped function returns a value.
C16_AlwaysReturnsNone ==
    \A c \in FinishedCalls :
        OutcomeOf(c).kind = "return" => OutcomeOf(c).value = None

\* C17: when a call of a freeze_gc wrapper is over, by return or by raise, the
\* collector's flag is what it was when the call was made; so for each of any
\* number of calls made one after the other.
C17_GcFlagRestored ==
    \A i \in 1..Len(gcLog) : gcLog[i].after = gcLog[i].before

\* a call that raised with the collector enabled, and later a call that
\* returned with the collector disabled
C17_Witness ==
    \E i, j \in 1..Len(gcLog) :
        /\ i < j
        /\ gcLog[i].before /\ gcLog[i].raised /\ gcLog[i].after
        /\ ~gcLog[j].before /\ ~gcLog[j].raised /\ ~gcLog[j].after

\* the file that holds the data in the format of the export function
FileHolding(fn, data) ==
    CASE fn = "json" -> JsonFile(data)
      [] fn = "yaml" -> YamlFile(data)
      [] fn = "xml" -> XmlFile(data)
      [] fn = "csv" -> IF Len(data.items) = 0 THEN [format |-> "csv", body |-> <<>>]
                       ELSE CsvFile(data)

KeepsExisting(e) == (~e.overwrite /\ Exists(e.before)) => e.after = e.before

\* C18 as stated: an export without overwrite leaves an existing file as it
\* was, and after an export with overwrite the file holds the exported data.
C18_OverwriteRule ==
    \A i \in 1..Len(exported) :
        /\ KeepsExisting(exported[i])
        /\ exported[i].overwrite =>
              exported[i].after = FileHolding(exported[i].fn, exported[i].data)

\* C18, amended: an export without overwrite leaves an existing file as it
\* was; after an export with overwrite the file holds the exported data,
\* except that export_data_to_csv given empty data writes nothing and leaves
\* the path as it was.
C18_OverwriteRuleButEmptyCsv ==
    \A i \in 1..Len(exported) :
        LET e == exported[i]
        IN  /\ KeepsExisting(e)
            /\ e.overwrite =>
                  IF e.fn = "csv" /\ Len(e.data.items) = 0
                  THEN e.after = e.before
                  ELSE e.after = FileHolding(e.fn, e.data)

\* the file written by a first export still holds its data after an export
\* of other data without overwrite
C18_Witness ==
    /\ Len(exported) = 2
    /\ exported[1].after = FileHolding(exported[1].fn, exported[1].data)
    /\ ~exported[2].overwrite
    /\ FileHolding(exported[2].fn, exported[2].data) # exported[1].after
    /\ stored = exported[1].after

ImportedAfterExport ==
    /\ imported # NoResult
    /\ Len(exported) > 0
    /\ exported[Len(exported)].after # exported[Len(exported)].before

\* equal as Python values: dicts whatever the order of their keys
PyEqual(v, w) ==
    /\ v.type = w.type
    /\ v.text = w.text
    /\ IF v.type = "dict"
       THEN /\ Len(v.items) = Len(w.items)
            /\ {v.items[i] : i \in 1..Len(v.items)} = {w.items[i] : i \in 1..Len(w.items)}
       ELSE v.items = w.items

\* C19: import_data_from_xml of the file written by export_data_to_xml
\* returns a value equal to the exported one, for every dict of tag names to
\* str values and every list of str.
C19_XmlRoundTrip ==
    ImportedAfterExport =>
        /\ imported.kind = "return"
        /\ PyEqual(imported.value, exported[Len(exported)].data)

EnvLoaded == loaded # NoCall

\* the line is not a comment and the text before its first "=" is the name
AssignsTo(text, name) ==
    /\ Len(name) > 0
    /\ name[1] # "#"
    /\ \E e \in 1..Len(text) :
          /\ text[e] = "="
          /\ \A j \in 1..(e - 1) : text[j] # "="
          /\ StrStrip(SubSeq(text, 1, e - 1)) = name

AssignedIn(lines, name) == \E i \in 1..Len(lines) : AssignsTo(lines[i], name)

LastAssignment(lines, name) ==
    CHOOSE i \in 1..Len(lines) :
        /\ AssignsTo(lines[i], name)
        /\ \A j \in (i + 1)..Len(lines) : ~AssignsTo(lines[j], name)

\* the value line i assigns, read in the environment the lines before it left
ValueOfLine(lines, i, before, overwrite) ==
    ParseLine(lines[i], LoadLines(SubSeq(lines, 1, i - 1), before, overwrite).env).value

SameIn(name, env1, env2) ==
    /\ name \in DOMAIN env1 <=> name \in DOMAIN env2
    /\ name \in DOMAIN env1 => env1[name] = env2[name]

C21_UnitIsTargetAndLengthReturned ==
    converted # NoCall =>
        /\ (converted.before.unit \in SupportedUnits /\ converted.unit \in SupportedUnits)
               => converted.outcome.kind = "return"
        /\ converted.outcome.kind = "return"
               => /\ scale.unit = converted.unit
                  /\ converted.outcome.value = scale.length

\* a second conversion between two units other than cm has returned
C21_Witness ==
    /\ converted # NoCall
    /\ converted.nth = 2
    /\ converted.outcome.kind = "return"
    /\ converted.before.unit \notin {"cm", converted.unit}
    /\ converted.unit # "cm"

\* C30: when convert_to_unit raises ValueError, for an unsupported unit of the
\* object or an unsupported target, unit and length are as before the call.
C30_UnchangedOnValueError ==
    (converted # NoCall /\ converted.outcome.kind = "raise")
        => scale = converted.before

\* the index of the unit of n bytes: the i with 1024^i <= n < 1024^(i+1)
RECURSIVE UnitIndex(_)
UnitIndex(n) == IF n < 1024 THEN 0 ELSE 1 + UnitIndex(n \div 1024)

SizeReturned == call.fn = "convert_size" /\ result.kind = "return"

\* C22: convert_size(n) for n >= 1 returns (s, unit) where unit is the name
\* of index i with 1024^i <= n < 1024^(i+1), s is n / 1024^i rounded to two
\* decimals and 1 <= s < 1024; convert_size(0) returns (0, "B").
C22_MostConciseUnit ==
    SizeReturned =>
        LET n == call.arg
            s == result.value.s
            i == UnitIndex(n)
            p == 1024 ^ i
            d == 100 * n - s * p
        IN  IF n = 0 THEN result.value = [s |-> 0, unit |-> "B"]
            ELSE /\ result.value.unit = <<"B", "KB", "MB", "GB", "TB", "PB", "EB", "ZB", "YB">>[i + 1]
                 /\ 2 * d <= p /\ 2 * d >= 0 - p
                 /\ 100 <= s /\ s < 102400

ValidationReturned == call.fn = "validation_no_special_chars" /\ result.kind = "return"

\* C24: validation_no_special_chars returns True exactly when the string is
\* not empty and each of its characters is an ASCII letter, a digit or an
\* underscore; the empty string and a string with whitespace anywhere, a
\* trailing newline included, give False.
C24_TrueIffAllWordChars ==
    ValidationReturned =>
        LET string == call.arg
        IN  result.value =
                (/\ string # <<>>
                 /\ \A j \in 1..Len(string) : string[j] \in {"a", "Z", "0", "_"})

\* C23: the calls of next on a ProgressBar return the elements of the data in
\* order, each once, and every call after them raises StopIteration; the
\* index starts at 0, is the number of elements returned so far (one more
\* for each element, no more for a StopIteration) and stays within
\* 0..len(data).
C23_YieldsInOrderThenStops ==
    /\ bar.index \in 0..Len(bar.data)
    /\ bar.index = Cardinality({k \in 1..Len(nexts) : nexts[k].kind = "return"})
    /\ \A k \in 1..Len(nexts) :
           nexts[k] = IF k <= Len(bar.data) THEN Return(bar.data[k])
                      ELSE Raise("StopIteration")

\* all of two or more elements were returned and next was called twice more
C23_Witness ==
    /\ Len(bar.data) >= 2
    /\ bar.index = Len(bar.data)
    /\ Len(nexts) = Len(bar.data) + 2
    /\ nexts[Len(nexts)].kind = "raise"

\* C25: the keys of the paths handed to sort_path_list hold a str at the
\* indexes 0, 2, 4, ... and an int at the indexes 1, 3, 5, ..., so no two
\* keys hold an int and a str at the same index and the sort never fails.
C25_KeysNeverMixIntAndStr ==
    (call.fn = "sort_path_list" /\ call.path_objs # None) =>
        /\ result.kind = "return"
        /\ \A i \in 1..Len(paths) :
               LET key == alphanum_key(paths[i])
               IN  \A k \in 1..Len(key) : key[k].isInt = (k % 2 = 0)

\* C26: of the passing files that carry the largest version number,
\* get_latest_version_file_from_dir returns the one that comes first in the
\* enumeration of the directory; when one file alone carries the largest
\* number, the call returns that file for every order of enumeration.
C26_FirstOfTiedInEnumerationOrder ==
    LatestReturned =>
        LET ext == call.extension
            sub == call.substring
            Versioned(g) == /\ LatestMatches(g, ext, sub)
                            /\ DigitRunLen(StemOf(g, ext)) > 0
            Ver(g) == RunValue(StemOf(g, ext))
            top == {i \in 1..Len(contents) :
                       /\ Versioned(contents[i].name)
                       /\ \A j \in 1..Len(contents) :
                              Versioned(contents[j].name)
                                  => Ver(contents[j].name) <= Ver(contents[i].name)}
            orders == {p \in [1..Len(contents) -> 1..Len(contents)] :
                          \A a, b \in 1..Len(contents) : p[a] = p[b] => a = b}
        IN  /\ top # {}
            /\ result.value = contents[CHOOSE i \in top : \A j \in top : i <= j].name
            /\ Cardinality(top) = 1 =>
                   \A p \in orders :
                       LatestIn(dirExists, [k \in 1..Len(contents) |-> contents[p[k]]],
                                call.filepath, ext, sub) = result

\* two files carry the largest number and the first of them was returned
C26_Witness ==
    /\ LatestReturned
    /\ Len(contents) = 2
    /\ contents[1].name # contents[2].name
    /\ RunValue(StemOf(contents[1].name, call.extension))
           = RunValue(StemOf(contents[2].name, call.extension))
    /\ LatestMatches(contents[2].name, call.extension, call.substring)
    /\ result.value = contents[1].name

\* C27: on a directory whose entries passing the extension and substring
\* filter are all regular files with a trailing digit run of exactly
\* `padding` digits, get_next_version_from_dir returns the number of the file
\* that get_latest_version_file_from_dir returns, plus one, zero-padded to
\* `padding`; and get_latest_version_file_from_dir returns None exactly when
\* get_next_version_from_dir has no candidate and returns "1" zero-padded.
C27_LookupsAgree ==
    NextCalledOnDir =>
        LET ext == call.extension
            sub == call.substring
            wellFormed ==
                \A i \in 1..Len(contents) :
                    LatestMatches(contents[i].name, ext, sub)
                        => /\ contents[i].isFile
                           /\ DigitRunLen(StemOf(contents[i].name, ext)) = call.padding
            latest == get_latest_version_file_from_dir(call.filepath, ext, sub)
        IN  wellFormed =>
                /\ latest.kind = "return"
                /\ IF latest.value = None
                   THEN /\ RecordedVersions = <<>>
                        /\ result = Return(ZFill(<<"1">>, call.padding))
                   ELSE /\ RecordedVersions # <<>>
                        /\ result = Return(ZFill(IntToStr(RunValue(StemOf(latest.value, ext)) + 1),
                                                 call.padding))

\* C28: every call of a once-wrapped function comes to its end when the
\* wrapped function does: the lock is released after the first execution has
\* returned or raised, no interleaving of the threads leaves a call waiting
\* for ever, and a call made from inside the wrapped function returns.
C28_EveryCallTerminates ==
    \A t \in Threads : (pc[t] # "idle") ~> (pc[t] = "idle" /\ lock # t)

\* the thread that ran the function called the wrapper from inside it, got
\* None, and its own call has returned the value with the lock released
C28_Witness ==
    \E t \in Threads :
        /\ pc[t] = "idle"
        /\ lock = 0
        /\ \E i \in 1..Len(ran) : ran[i] = <<t, 1>>
        /\ Len(ret[t]) >= 2
        /\ ret[t][1] = Return(None)
        /\ ret[t][2] = Return(FuncValue)

\* C29: while a freeze_gc-wrapped function executes the collector is
\* disabled: the decorator does not enable it before that function is over,
\* whatever other wrapped call, nested in it or of another thread, finishes.
C29_DisabledWhileBodyRuns ==
    \A t \in Threads :
        \A d \in 1..Len(gcStack[t]) :
            gcStack[t][d].at = "body" => gc_enabled = FALSE
====
